---- MODULE Spec2Model ----
(***************************************************************************)
(* Payroll ledger of the employee-management-system: the Payroll and       *)
(* PayrollAdjustment tables and the route handlers that read and write     *)
(* them.  Every handler is cut at its awaits (the storage I/O boundaries), *)
(* so that concurrent requests interleave exactly where the code can be    *)
(* suspended.  Amounts are integers (the DOUBLE columns hold whole amounts *)
(* in every input drawn here).                                             *)
(***************************************************************************)
EXTENDS Integers, FiniteSets, Sequences, TLC

VARIABLES payroll, adjustment, nextPayrollId, nextAdjustmentId, pc, loc,
          department, training, notification, now

vars == <<payroll, adjustment, nextPayrollId, nextAdjustmentId, pc, loc,
          department, training, notification, now>>

\* the tables beside the payroll ledger (Department, Training, Notification) and the
\* server's clock
otherTables == <<department, training, notification, now>>

(* ---------------------------- bounds ----------------------------------- *)

\* rows ever inserted into Payroll / PayrollAdjustment (AUTO_INCREMENT ids)
MaxPayroll == 2
MaxAdjustment == 2

\* rows ever inserted into Department
MaxDepartment == 2

\* rows ever inserted into Training, and the last instant of the server's clock
MaxTraining == 2
MaxNow == 3

\* rows ever inserted into Notification
MaxNotification == 2

\* the concurrent requests in flight
Procs == {"r1", "r2"}

(* ---------------------------- constants -------------------------------- *)

ADJUSTMENT_TYPES == {"BONUS", "COMMISSION", "DEDUCTION", "ALLOWANCE", "OVERTIME", "OTHER"}

PayrollStatus == {"DRAFT", "PROCESSING", "COMPLETED", "PAID", "CANCELLED"}

(* ---------------------------- request inputs --------------------------- *)

\* body of POST /api/payroll/adjustments; `approved` defaults to false.
\* `kinds` are the <<type, amount>> pairs drawn.
AdjustmentPostBodies(kinds, flags) ==
    {[payrollId |-> i, type |-> k[1], amount |-> k[2], approved |-> b] :
        i \in 1..MaxPayroll, k \in kinds, b \in flags}

\* body of PATCH /api/payroll/adjustments/{id}: `has` lists the fields present
AdjustmentPatchBodies(types, amounts, flags) ==
    {[has |-> {"approved"}, type |-> "BONUS", amount |-> 0, approved |-> b] : b \in flags}
    \cup {[has |-> {"amount"}, type |-> "BONUS", amount |-> a, approved |-> FALSE] : a \in amounts}
    \cup {[has |-> {"type"}, type |-> t, amount |-> 0, approved |-> FALSE] : t \in types}

\* body of POST /api/payroll
PayrollPostBodies ==
    [baseSalary : {5000}, allowances : {0}, bonuses : {0}, deductions : {0},
     tax : {500}, status : {"DRAFT"}]

\* body of PATCH /api/payroll/{id}
NoPatch == [has |-> {}, baseSalary |-> 0, allowances |-> 0, bonuses |-> 0,
            deductions |-> 0, tax |-> 0, status |-> "DRAFT"]

PayrollPatchBodies ==
    {[NoPatch EXCEPT !.has = {"baseSalary"}, !.baseSalary = 5500],
     [NoPatch EXCEPT !.has = {"allowances"}, !.allowances = 50],
     [NoPatch EXCEPT !.has = {"status"}, !.status = "PAID"]}

\* direct updates of the figures of a payroll, in and out of range
AdminPatchBodies ==
    {[NoPatch EXCEPT !.has = {"baseSalary"}, !.baseSalary = 5500],
     [NoPatch EXCEPT !.has = {"baseSalary"}, !.baseSalary = -100],
     [NoPatch EXCEPT !.has = {"allowances"}, !.allowances = 50]}

\* bodies of POST /api/payroll in several statuses
PayrollPostAnyStatus ==
    [baseSalary : {5000}, allowances : {0}, bonuses : {0}, deductions : {0},
     tax : {500}, status : {"DRAFT", "PAID", "CANCELLED"}]

\* bodies of POST /api/payroll with and without a bonus
PayrollPostWithBonuses ==
    [baseSalary : {5000}, allowances : {0}, bonuses : {0, 200}, deductions : {0},
     tax : {500}, status : {"DRAFT"}]

\* the requests drawn when requests arrive one at a time
SeqInputs ==
    [post |-> AdjustmentPostBodies({<<"BONUS", 300>>, <<"OVERTIME", 100>>}, BOOLEAN),
     patch |-> AdjustmentPatchBodies({}, {100}, BOOLEAN)]

\* the requests drawn when requests run concurrently
ConcInputs ==
    [post |-> AdjustmentPostBodies({<<"BONUS", 300>>}, {TRUE}),
     patch |-> AdjustmentPatchBodies({}, {}, {FALSE})]

\* the requests drawn to exercise the lookups and the type validation of the
\* adjustment routes: a type outside the enum, and a patch that carries an unknown
\* type together with a valid amount and approval
CheckInputs ==
    [post |-> AdjustmentPostBodies({<<"BONUS", 300>>, <<"BOGUS", 300>>}, {TRUE}),
     patch |-> AdjustmentPatchBodies({"BOGUS", "OVERTIME"}, {}, {FALSE})
               \cup {[has |-> {"type", "amount", "approved"}, type |-> "BOGUS",
                      amount |-> 100, approved |-> FALSE]}]

\* the adjustment requests drawn next to the direct updates of a payroll: creates
\* with a positive and with a negative amount, and approvals
AdminInputs ==
    [post |-> AdjustmentPostBodies({<<"BONUS", 300>>, <<"BONUS", -50>>}, {FALSE}),
     patch |-> AdjustmentPatchBodies({}, {}, {TRUE})]

\* the requests drawn next to a storage that can fail
AbortInputs ==
    [post |-> AdjustmentPostBodies({<<"BONUS", 300>>}, {TRUE}),
     patch |-> AdjustmentPatchBodies({}, {}, BOOLEAN)]

(* ---------------------------- helpers ---------------------------------- *)

NoBody == [has |-> {}]
NoTotals == [additions |-> 0, deductions |-> 0]
NoRow == [baseSalary |-> 0, allowances |-> 0, bonuses |-> 0, deductions |-> 0,
          tax |-> 0, netSalary |-> 0, status |-> "DRAFT"]

\* a request's own values: what it is (op, id, body), the payroll it works on (pid:
\* the body's payrollId, or existingAdjustment.payrollId), the payroll row it has
\* read (existing), the totals it has summed, and its response
IdleLoc == [op |-> "none", id |-> 0, pid |-> 0, body |-> NoBody,
            totals |-> NoTotals, existing |-> NoRow, result |-> "none"]

RECURSIVE SumAmount(_, _)
SumAmount(rows, ids) ==
    IF ids = {} THEN 0
    ELSE LET i == CHOOSE j \in ids : TRUE
         IN rows[i].amount + SumAmount(rows, ids \ {i})

Remove(f, k) == [i \in DOMAIN f \ {k} |-> f[i]]

\* the handler returns its response: the request stays visible as "done", with
\* what it was (op, id, pid, body) and its response; its working values are dropped
Respond(p, l, res) ==
    /\ pc' = [pc EXCEPT ![p] = "done"]
    /\ loc' = [loc EXCEPT ![p] = [l EXCEPT !.result = res, !.totals = NoTotals,
                                             !.existing = NoRow]]

Goto(p, l, label) ==
    /\ pc' = [pc EXCEPT ![p] = label]
    /\ loc' = [loc EXCEPT ![p] = l]

(* ---------------------------- recalculation ---------------------------- *)

\* create route: prisma.payrollAdjustment.findMany({where: {payrollId, status: "APPROVED"}})
findManyApproved(rows, payrollId) ==
    {i \in DOMAIN rows : rows[i].payrollId = payrollId /\ rows[i].status = "APPROVED"}

\* create route: the reduce over the rows read
totalsCreate(rows, ids) ==
    [additions |-> SumAmount(rows, {i \in ids : rows[i].type \in {"BONUS", "COMMISSION", "ALLOWANCE"}}),
     deductions |-> SumAmount(rows, {i \in ids : rows[i].type \notin {"BONUS", "COMMISSION", "ALLOWANCE"}})]

\* create route: prisma.payroll.update with the net salary computed from the row read
updateCreate(rows, payrollId, read, totals) ==
    [rows EXCEPT ![payrollId] =
        [rows[payrollId] EXCEPT
            !.netSalary = read.baseSalary + totals.additions - read.tax - totals.deductions,
            !.allowances = totals.additions,
            !.deductions = totals.deductions]]

\* [id] route: SELECT type, amount ... WHERE payrollId AND approved = true AND deletedAt IS NULL
queryApproved(rows, payrollId) ==
    {i \in DOMAIN rows : /\ rows[i].payrollId = payrollId
                         /\ rows[i].approved = TRUE
                         /\ rows[i].deletedAt = "NULL"}

\* variant: OVERTIME summed with the additions
totalsId_overtimeAdds(rows, ids) ==
    [additions |-> SumAmount(rows, {i \in ids : rows[i].type \in {"BONUS", "COMMISSION", "ALLOWANCE", "OVERTIME"}}),
     deductions |-> SumAmount(rows, {i \in ids : rows[i].type \notin {"BONUS", "COMMISSION", "ALLOWANCE", "OVERTIME"}})]

\* [id] route: the reduce over the rows read
totalsId(rows, ids) ==
    [additions |-> SumAmount(rows, {i \in ids : rows[i].type \in {"BONUS", "COMMISSION", "ALLOWANCE"}}),
     deductions |-> SumAmount(rows, {i \in ids : rows[i].type \notin {"BONUS", "COMMISSION", "ALLOWANCE"}})]

\* variant: an UPDATE without its WHERE clause
updateId_everyRow(rows, payrollId, totals) ==
    [i \in DOMAIN rows |->
        [rows[i] EXCEPT
            !.netSalary = rows[i].baseSalary + totals.additions
                          - rows[i].tax - totals.deductions,
            !.allowances = totals.additions,
            !.deductions = totals.deductions]]

\* variant: the UPDATE sets the two totals and leaves the net salary
updateId_totalsOnly(rows, payrollId, totals) ==
    IF payrollId \notin DOMAIN rows THEN rows
    ELSE [rows EXCEPT ![payrollId] =
            [rows[payrollId] EXCEPT
                !.allowances = totals.additions,
                !.deductions = totals.deductions]]

\* variant: the UPDATE also moves the payroll to PROCESSING
updateId_marksProcessing(rows, payrollId, totals) ==
    IF payrollId \notin DOMAIN rows THEN rows
    ELSE [rows EXCEPT ![payrollId] =
            [rows[payrollId] EXCEPT
                !.netSalary = rows[payrollId].baseSalary + totals.additions
                              - rows[payrollId].tax - totals.deductions,
                !.allowances = totals.additions,
                !.deductions = totals.deductions,
                !.status = "PROCESSING"]]

\* variant: the UPDATE only touches a payroll that is still a draft
updateId_draftOnly(rows, payrollId, totals) ==
    IF payrollId \notin DOMAIN rows \/ rows[payrollId].status # "DRAFT" THEN rows
    ELSE [rows EXCEPT ![payrollId] =
            [rows[payrollId] EXCEPT
                !.netSalary = rows[payrollId].baseSalary + totals.additions
                              - rows[payrollId].tax - totals.deductions,
                !.allowances = totals.additions,
                !.deductions = totals.deductions]]

\* variant: the net salary adjusted from its stored value
updateId_incremental(rows, payrollId, totals) ==
    IF payrollId \notin DOMAIN rows THEN rows
    ELSE [rows EXCEPT ![payrollId] =
            [rows[payrollId] EXCEPT
                !.netSalary = rows[payrollId].netSalary + totals.additions
                              - totals.deductions,
                !.allowances = totals.additions,
                !.deductions = totals.deductions]]

\* [id] route: SELECT ... FOR UPDATE; UPDATE "Payroll" SET ... WHERE id, one transaction.
\* The UPDATE reads baseSalary and tax of the row as it stands; no row, no change.
updateId(rows, payrollId, totals) ==
    IF payrollId \notin DOMAIN rows THEN rows
    ELSE [rows EXCEPT ![payrollId] =
            [rows[payrollId] EXCEPT
                !.netSalary = rows[payrollId].baseSalary + totals.additions
                              - rows[payrollId].tax - totals.deductions,
                !.allowances = totals.additions,
                !.deductions = totals.deductions]]

(* ---------------------------- state ------------------------------------ *)

Init ==
    /\ payroll = <<>>
    /\ adjustment = <<>>
    /\ nextPayrollId = 1
    /\ nextAdjustmentId = 1
    /\ pc = [p \in Procs |-> "idle"]
    /\ loc = [p \in Procs |-> IdleLoc]
    /\ department = <<>>
    /\ training = <<>>
    /\ notification = <<>>
    /\ now = 0

store == <<payroll, adjustment, nextPayrollId, nextAdjustmentId>>

(* ------------- POST /api/payroll/adjustments (create route) ------------ *)

\* validation, then prisma.payroll.findUnique
AdjustmentPOST_findPayroll(p, body) ==
    /\ pc[p] = "idle"
    /\ LET l == [IdleLoc EXCEPT !.op = "createAdjustment", !.body = body,
                                 !.pid = body.payrollId]
       IN IF body.type \notin ADJUSTMENT_TYPES THEN Respond(p, l, "badRequest")
          ELSE IF body.payrollId \notin DOMAIN payroll THEN Respond(p, l, "notFound")
          ELSE /\ nextAdjustmentId + Cardinality({q \in Procs : pc[q] = "post_create"})
                    <= MaxAdjustment
               /\ Goto(p, l, "post_create")
    /\ UNCHANGED store
    /\ UNCHANGED otherTables

\* prisma.payrollAdjustment.create; the foreign key rejects a missing payroll
AdjustmentPOST_create(p) ==
    /\ pc[p] = "post_create"
    /\ LET body == loc[p].body
       IN IF body.payrollId \notin DOMAIN payroll
          THEN /\ Respond(p, loc[p], "serverError")
               /\ UNCHANGED store
          ELSE /\ adjustment' = adjustment @@
                      (nextAdjustmentId :>
                          [payrollId |-> body.payrollId, type |-> body.type,
                           amount |-> body.amount, approved |-> body.approved,
                           status |-> "PENDING", deletedAt |-> "NULL"])
               /\ nextAdjustmentId' = nextAdjustmentId + 1
               /\ Goto(p, [loc[p] EXCEPT !.id = nextAdjustmentId], "post_recalc_findMany")
               /\ UNCHANGED <<payroll, nextPayrollId>>
    /\ UNCHANGED otherTables

\* recalculatePayrollNetSalary of the create route, first await
RecalcCreate_findMany(p) ==
    /\ pc[p] = "post_recalc_findMany"
    /\ Goto(p, [loc[p] EXCEPT !.totals =
                    totalsCreate(adjustment, findManyApproved(adjustment, loc[p].pid))],
            "post_recalc_findUnique")
    /\ UNCHANGED store
    /\ UNCHANGED otherTables

\* second await: prisma.payroll.findUnique; `if (!payroll) return;`
RecalcCreate_findUnique(p) ==
    /\ pc[p] = "post_recalc_findUnique"
    /\ IF loc[p].pid \notin DOMAIN payroll THEN Respond(p, loc[p], "created")
       ELSE Goto(p, [loc[p] EXCEPT !.existing = payroll[loc[p].pid]], "post_recalc_update")
    /\ UNCHANGED store
    /\ UNCHANGED otherTables

\* third await: prisma.payroll.update, which throws when the row is gone
RecalcCreate_update(p) ==
    /\ pc[p] = "post_recalc_update"
    /\ IF loc[p].pid \notin DOMAIN payroll
       THEN /\ Respond(p, loc[p], "serverError")
            /\ UNCHANGED store
       ELSE /\ payroll' = updateCreate(payroll, loc[p].pid, loc[p].existing, loc[p].totals)
            /\ Respond(p, loc[p], "created")
            /\ UNCHANGED <<adjustment, nextPayrollId, nextAdjustmentId>>
    /\ UNCHANGED otherTables

(* ------------- PATCH /api/payroll/adjustments/{id} --------------------- *)

\* variant: the type is not validated
AdjustmentPATCH_findUnique_anyType(p, id, body) ==
    /\ pc[p] = "idle"
    /\ LET l == [IdleLoc EXCEPT !.op = "updateAdjustment", !.id = id, !.body = body]
       IN IF id \notin DOMAIN adjustment THEN Respond(p, l, "notFound")
          ELSE Goto(p, [l EXCEPT !.pid = adjustment[id].payrollId], "patch_update")
    /\ UNCHANGED store
    /\ UNCHANGED otherTables

\* prisma.payrollAdjustment.findUnique, then the type validation
AdjustmentPATCH_findUnique(p, id, body) ==
    /\ pc[p] = "idle"
    /\ LET l == [IdleLoc EXCEPT !.op = "updateAdjustment", !.id = id, !.body = body]
       IN IF id \notin DOMAIN adjustment THEN Respond(p, l, "notFound")
          ELSE IF "type" \in body.has /\ body.type \notin ADJUSTMENT_TYPES
               THEN Respond(p, [l EXCEPT !.pid = adjustment[id].payrollId], "badRequest")
          ELSE Goto(p, [l EXCEPT !.pid = adjustment[id].payrollId], "patch_update")
    /\ UNCHANGED store
    /\ UNCHANGED otherTables

\* variant: the recalculation only when the amount is patched
AdjustmentPATCH_update_amountOnly(p) ==
    /\ pc[p] = "patch_update"
    /\ LET id == loc[p].id
           body == loc[p].body
       IN IF id \notin DOMAIN adjustment
          THEN /\ Respond(p, loc[p], "serverError")
               /\ UNCHANGED store
          ELSE /\ adjustment' = [adjustment EXCEPT ![id] =
                      [adjustment[id] EXCEPT
                          !.type = IF "type" \in body.has THEN body.type ELSE @,
                          !.amount = IF "amount" \in body.has THEN body.amount ELSE @,
                          !.approved = IF "approved" \in body.has THEN body.approved ELSE @]]
               /\ IF "amount" \in body.has
                  THEN Goto(p, loc[p], "recalc_query")
                  ELSE Respond(p, loc[p], "ok")
               /\ UNCHANGED <<payroll, nextPayrollId, nextAdjustmentId>>
    /\ UNCHANGED otherTables

\* variant: the recalculation after every update
AdjustmentPATCH_update_always(p) ==
    /\ pc[p] = "patch_update"
    /\ LET id == loc[p].id
           body == loc[p].body
       IN IF id \notin DOMAIN adjustment
          THEN /\ Respond(p, loc[p], "serverError")
               /\ UNCHANGED store
          ELSE /\ adjustment' = [adjustment EXCEPT ![id] =
                      [adjustment[id] EXCEPT
                          !.type = IF "type" \in body.has THEN body.type ELSE @,
                          !.amount = IF "amount" \in body.has THEN body.amount ELSE @,
                          !.approved = IF "approved" \in body.has THEN body.approved ELSE @]]
               /\ Goto(p, loc[p], "recalc_query")
               /\ UNCHANGED <<payroll, nextPayrollId, nextAdjustmentId>>
    /\ UNCHANGED otherTables

\* prisma.payrollAdjustment.update with the fields present in the body
AdjustmentPATCH_update(p) ==
    /\ pc[p] = "patch_update"
    /\ LET id == loc[p].id
           body == loc[p].body
       IN IF id \notin DOMAIN adjustment
          THEN /\ Respond(p, loc[p], "serverError")
               /\ UNCHANGED store
          ELSE /\ adjustment' = [adjustment EXCEPT ![id] =
                      [adjustment[id] EXCEPT
                          !.type = IF "type" \in body.has THEN body.type ELSE @,
                          !.amount = IF "amount" \in body.has THEN body.amount ELSE @,
                          !.approved = IF "approved" \in body.has THEN body.approved ELSE @]]
               /\ IF "amount" \in body.has \/ "approved" \in body.has
                  THEN Goto(p, loc[p], "recalc_query")
                  ELSE Respond(p, loc[p], "ok")
               /\ UNCHANGED <<payroll, nextPayrollId, nextAdjustmentId>>
    /\ UNCHANGED otherTables

(* ------------- DELETE /api/payroll/adjustments/{id} -------------------- *)

\* variant: the row is not looked up before the delete
AdjustmentDELETE_findUnique_noLookup(p, id) ==
    /\ pc[p] = "idle"
    /\ Goto(p, [IdleLoc EXCEPT !.op = "deleteAdjustment", !.id = id,
                               !.pid = IF id \in DOMAIN adjustment
                                       THEN adjustment[id].payrollId ELSE 0],
            "delete_delete")
    /\ UNCHANGED store
    /\ UNCHANGED otherTables

\* prisma.payrollAdjustment.findUnique
AdjustmentDELETE_findUnique(p, id) ==
    /\ pc[p] = "idle"
    /\ LET l == [IdleLoc EXCEPT !.op = "deleteAdjustment", !.id = id]
       IN IF id \notin DOMAIN adjustment THEN Respond(p, l, "notFound")
          ELSE Goto(p, [l EXCEPT !.pid = adjustment[id].payrollId], "delete_delete")
    /\ UNCHANGED store
    /\ UNCHANGED otherTables

\* variant: the recalculation only when the deleted row was approved
AdjustmentDELETE_delete_approvedOnly(p) ==
    /\ pc[p] = "delete_delete"
    /\ IF loc[p].id \notin DOMAIN adjustment
       THEN /\ Respond(p, loc[p], "serverError")
            /\ UNCHANGED store
       ELSE /\ adjustment' = Remove(adjustment, loc[p].id)
            /\ IF adjustment[loc[p].id].approved
               THEN Goto(p, loc[p], "recalc_query")
               ELSE Respond(p, loc[p], "ok")
            /\ UNCHANGED <<payroll, nextPayrollId, nextAdjustmentId>>
    /\ UNCHANGED otherTables

\* prisma.payrollAdjustment.delete, which throws when the row is gone
AdjustmentDELETE_delete(p) ==
    /\ pc[p] = "delete_delete"
    /\ IF loc[p].id \notin DOMAIN adjustment
       THEN /\ Respond(p, loc[p], "serverError")
            /\ UNCHANGED store
       ELSE /\ adjustment' = Remove(adjustment, loc[p].id)
            /\ Goto(p, loc[p], "recalc_query")
            /\ UNCHANGED <<payroll, nextPayrollId, nextAdjustmentId>>
    /\ UNCHANGED otherTables

(* ------------- recalculatePayrollNetSalary of the [id] route ----------- *)

\* first await: the raw SELECT of the approved adjustments, and the reduce
RecalcId_query(p) ==
    /\ pc[p] = "recalc_query"
    /\ Goto(p, [loc[p] EXCEPT !.totals =
                    totalsId(adjustment, queryApproved(adjustment, loc[p].pid))],
            "recalc_transaction")
    /\ UNCHANGED store
    /\ UNCHANGED otherTables

\* second await: prisma.$transaction([SELECT ... FOR UPDATE, UPDATE ...])
RecalcId_transaction(p) ==
    /\ pc[p] = "recalc_transaction"
    /\ payroll' = updateId(payroll, loc[p].pid, loc[p].totals)
    /\ Respond(p, loc[p], "ok")
    /\ UNCHANGED <<adjustment, nextPayrollId, nextAdjustmentId>>
    /\ UNCHANGED otherTables

\* The same transaction, statement by statement as the database runs it.
\* A request at "recalc_locked" holds the row lock of payroll loc.pid.

\* variant: the SELECT locks the table
RecalcId_forUpdate_tableLock(p) ==
    /\ pc[p] = "recalc_transaction"
    /\ ~\E q \in Procs \ {p} : pc[q] = "recalc_locked"
    /\ Goto(p, loc[p], "recalc_locked")
    /\ UNCHANGED store
    /\ UNCHANGED otherTables

\* SELECT * FROM "Payroll" WHERE id = payrollId FOR UPDATE: waits while another
\* transaction holds the lock of that row
RecalcId_forUpdate(p) ==
    /\ pc[p] = "recalc_transaction"
    /\ ~\E q \in Procs \ {p} : pc[q] = "recalc_locked" /\ loc[q].pid = loc[p].pid
    /\ Goto(p, loc[p], "recalc_locked")
    /\ UNCHANGED store
    /\ UNCHANGED otherTables

\* UPDATE "Payroll" SET ... WHERE id = payrollId, and the commit
RecalcId_commit(p) ==
    /\ pc[p] = "recalc_locked"
    /\ payroll' = updateId(payroll, loc[p].pid, loc[p].totals)
    /\ Respond(p, loc[p], "ok")
    /\ UNCHANGED <<adjustment, nextPayrollId, nextAdjustmentId>>
    /\ UNCHANGED otherTables

\* a storage call of the recalculation throws: the handler's catch answers 500
RecalcThrows(p) ==
    /\ pc[p] \in {"post_recalc_findMany", "post_recalc_findUnique", "post_recalc_update",
                  "recalc_query", "recalc_transaction"}
    /\ Respond(p, loc[p], "serverError")
    /\ UNCHANGED store
    /\ UNCHANGED otherTables

(* ------------- POST /api/payroll --------------------------------------- *)

\* the whole handler: validation, the net salary, prisma.payroll.create
PayrollPOST(p, body) ==
    /\ pc[p] = "idle"
    /\ LET l == [IdleLoc EXCEPT !.op = "createPayroll", !.pid = nextPayrollId]
       IN IF body.status \notin PayrollStatus
          THEN /\ Respond(p, [l EXCEPT !.pid = 0], "badRequest")
               /\ UNCHANGED store
          ELSE /\ nextPayrollId <= MaxPayroll
               /\ payroll' = payroll @@
                      (nextPayrollId :>
                          [baseSalary |-> body.baseSalary, allowances |-> body.allowances,
                           bonuses |-> body.bonuses, deductions |-> body.deductions,
                           tax |-> body.tax,
                           netSalary |-> body.baseSalary + body.allowances + body.bonuses
                                         - body.deductions - body.tax,
                           status |-> body.status])
               /\ nextPayrollId' = nextPayrollId + 1
               /\ Respond(p, l, "created")
               /\ UNCHANGED <<adjustment, nextAdjustmentId>>
    /\ UNCHANGED otherTables

(* ------------- PATCH /api/payroll/{id} --------------------------------- *)

PayrollPATCH_findUnique(p, id, body) ==
    /\ pc[p] = "idle"
    /\ LET l == [IdleLoc EXCEPT !.op = "updatePayroll", !.id = id, !.pid = id,
                                 !.body = body]
       IN IF id \notin DOMAIN payroll THEN Respond(p, l, "notFound")
          ELSE IF "status" \in body.has /\ body.status \notin PayrollStatus
               THEN Respond(p, l, "badRequest")
          ELSE Goto(p, [l EXCEPT !.existing = payroll[id]], "payroll_update")
    /\ UNCHANGED store
    /\ UNCHANGED otherTables

\* the net salary of the PATCH, from the body and the row read before
patchNetSalary(body, existingPayroll) ==
    IF body.has \cap {"baseSalary", "allowances", "bonuses", "deductions", "tax"} # {}
    THEN (IF "baseSalary" \in body.has THEN body.baseSalary ELSE existingPayroll.baseSalary)
         + (IF "allowances" \in body.has THEN body.allowances ELSE existingPayroll.allowances)
         + (IF "bonuses" \in body.has THEN body.bonuses ELSE existingPayroll.bonuses)
         - (IF "deductions" \in body.has THEN body.deductions ELSE existingPayroll.deductions)
         - (IF "tax" \in body.has THEN body.tax ELSE existingPayroll.tax)
    ELSE existingPayroll.netSalary

\* prisma.payroll.update, which throws when the row is gone
PayrollPATCH_update(p) ==
    /\ pc[p] = "payroll_update"
    /\ LET id == loc[p].id
           body == loc[p].body
       IN IF id \notin DOMAIN payroll
          THEN /\ Respond(p, loc[p], "serverError")
               /\ UNCHANGED store
          ELSE /\ payroll' = [payroll EXCEPT ![id] =
                      [payroll[id] EXCEPT
                          !.baseSalary = IF "baseSalary" \in body.has THEN body.baseSalary ELSE @,
                          !.allowances = IF "allowances" \in body.has THEN body.allowances ELSE @,
                          !.bonuses = IF "bonuses" \in body.has THEN body.bonuses ELSE @,
                          !.deductions = IF "deductions" \in body.has THEN body.deductions ELSE @,
                          !.tax = IF "tax" \in body.has THEN body.tax ELSE @,
                          !.status = IF "status" \in body.has THEN body.status ELSE @,
                          !.netSalary = patchNetSalary(body, loc[p].existing)]]
               /\ Respond(p, loc[p], "ok")
               /\ UNCHANGED <<adjustment, nextPayrollId, nextAdjustmentId>>
    /\ UNCHANGED otherTables

(* ------------- DELETE /api/payroll/{id} -------------------------------- *)

PayrollDELETE_findUnique(p, id) ==
    /\ pc[p] = "idle"
    /\ LET l == [IdleLoc EXCEPT !.op = "deletePayroll", !.id = id, !.pid = id]
       IN IF id \notin DOMAIN payroll THEN Respond(p, l, "notFound")
          ELSE Goto(p, l, "payroll_delete")
    /\ UNCHANGED store
    /\ UNCHANGED otherTables

\* variant: no foreign key holds the payroll back
PayrollDELETE_delete_noRestrict(p) ==
    /\ pc[p] = "payroll_delete"
    /\ LET id == loc[p].id
       IN IF id \notin DOMAIN payroll
          THEN /\ Respond(p, loc[p], "serverError")
               /\ UNCHANGED store
          ELSE /\ payroll' = Remove(payroll, id)
               /\ Respond(p, loc[p], "ok")
               /\ UNCHANGED <<adjustment, nextPayrollId, nextAdjustmentId>>
    /\ UNCHANGED otherTables

\* prisma.payroll.delete: throws when the row is gone, and when an adjustment
\* still references it (PayrollAdjustment_payrollId_fkey, ON DELETE RESTRICT)
PayrollDELETE_delete(p) ==
    /\ pc[p] = "payroll_delete"
    /\ LET id == loc[p].id
       IN IF id \notin DOMAIN payroll
             \/ \E a \in DOMAIN adjustment : adjustment[a].payrollId = id
          THEN /\ Respond(p, loc[p], "serverError")
               /\ UNCHANGED store
          ELSE /\ payroll' = Remove(payroll, id)
               /\ Respond(p, loc[p], "ok")
               /\ UNCHANGED <<adjustment, nextPayrollId, nextAdjustmentId>>
    /\ UNCHANGED otherTables

(* ------------- /api/department and /api/department/{id} --------------- *)

\* a Department row: deletedAt is "NULL" or "SET" (the time of the soft delete)
DepartmentNames == {"Sales", "Support", "Finance"}

\* bodies of PUT and PATCH: the handlers pass every field of the body but the id on
\* to prisma.department.update
DepartmentUpdateBodies ==
    {[has |-> {"name"}, name |-> n, isActive |-> TRUE, deletedAt |-> "NULL"] :
        n \in DepartmentNames}
    \cup {[has |-> {"isActive"}, name |-> "Sales", isActive |-> FALSE, deletedAt |-> "NULL"],
          [has |-> {"isActive", "deletedAt"}, name |-> "Sales", isActive |-> TRUE,
           deletedAt |-> "NULL"]}

\* prisma.department.findUnique({where: {id, deletedAt: null}})
findDepartment(rows, id) ==
    id \in DOMAIN rows /\ rows[id].deletedAt = "NULL"

\* the unique index Department_name_key, which also covers the deleted rows
nameTaken(rows, name, id) ==
    \E d \in DOMAIN rows : d # id /\ rows[d].name = name

\* POST /api/department
DepartmentPOST(p, name) ==
    /\ pc[p] = "idle"
    /\ LET l == [IdleLoc EXCEPT !.op = "createDepartment", !.id = Len(department) + 1]
       IN IF \E d \in DOMAIN department :
                department[d].name = name /\ department[d].deletedAt = "NULL"
          THEN /\ Respond(p, l, "badRequest")
               /\ UNCHANGED department
          ELSE IF nameTaken(department, name, 0)
          THEN /\ Respond(p, l, "serverError")
               /\ UNCHANGED department
          ELSE /\ Len(department) < MaxDepartment
               /\ department' = Append(department,
                      [name |-> name, isActive |-> TRUE, deletedAt |-> "NULL"])
               /\ Respond(p, l, "created")
    /\ UNCHANGED <<store, training, notification, now>>

\* GET /api/department/{id}
DepartmentGET(p, id) ==
    /\ pc[p] = "idle"
    /\ Respond(p, [IdleLoc EXCEPT !.op = "getDepartment", !.id = id],
               IF findDepartment(department, id) THEN "ok" ELSE "notFound")
    /\ UNCHANGED <<store, otherTables>>

\* the lookup, the duplicate-name check and prisma.department.update that PUT and
\* PATCH share
updateDepartment(p, l, id, body) ==
    IF ~findDepartment(department, id)
    THEN /\ Respond(p, l, "notFound")
         /\ UNCHANGED department
    ELSE IF /\ "name" \in body.has
            /\ body.name # department[id].name
            /\ \E d \in DOMAIN department :
                  d # id /\ department[d].name = body.name /\ department[d].deletedAt = "NULL"
    THEN /\ Respond(p, l, "badRequest")
         /\ UNCHANGED department
    ELSE IF "name" \in body.has /\ nameTaken(department, body.name, id)
    THEN /\ Respond(p, l, "serverError")
         /\ UNCHANGED department
    ELSE /\ department' = [department EXCEPT ![id] =
                [name |-> IF "name" \in body.has THEN body.name ELSE @.name,
                 isActive |-> IF "isActive" \in body.has THEN body.isActive ELSE @.isActive,
                 deletedAt |-> IF "deletedAt" \in body.has THEN body.deletedAt
                               ELSE @.deletedAt]]
         /\ Respond(p, l, "ok")

\* PUT /api/department/{id}
DepartmentPUT(p, id, body) ==
    /\ pc[p] = "idle"
    /\ updateDepartment(p, [IdleLoc EXCEPT !.op = "putDepartment", !.id = id,
                                           !.body = body], id, body)
    /\ UNCHANGED <<store, training, notification, now>>

\* variant: the lookup does not leave the deleted rows out
DepartmentPATCH_anyRow(p, id, body) ==
    /\ pc[p] = "idle"
    /\ LET l == [IdleLoc EXCEPT !.op = "patchDepartment", !.id = id, !.body = body]
       IN IF id \notin DOMAIN department
          THEN /\ Respond(p, l, "notFound")
               /\ UNCHANGED department
          ELSE /\ department' = [department EXCEPT ![id] =
                      [name |-> @.name,
                       isActive |-> IF "isActive" \in body.has THEN body.isActive
                                    ELSE @.isActive,
                       deletedAt |-> IF "deletedAt" \in body.has THEN body.deletedAt
                                     ELSE @.deletedAt]]
               /\ Respond(p, l, "ok")
    /\ UNCHANGED <<store, training, notification, now>>

\* PATCH /api/department/{id}
DepartmentPATCH(p, id, body) ==
    /\ pc[p] = "idle"
    /\ updateDepartment(p, [IdleLoc EXCEPT !.op = "patchDepartment", !.id = id,
                                           !.body = body], id, body)
    /\ UNCHANGED <<store, training, notification, now>>

\* PUT /api/department, the id in the body
DepartmentsPUT(p, id, body) ==
    /\ pc[p] = "idle"
    /\ updateDepartment(p, [IdleLoc EXCEPT !.op = "putDepartments", !.id = id,
                                           !.body = body], id, body)
    /\ UNCHANGED <<store, training, notification, now>>

\* DELETE /api/department/{id}: the soft delete
DepartmentDELETE(p, id) ==
    /\ pc[p] = "idle"
    /\ LET l == [IdleLoc EXCEPT !.op = "deleteDepartment", !.id = id]
       IN IF ~findDepartment(department, id)
          THEN /\ Respond(p, l, "notFound")
               /\ UNCHANGED department
          ELSE /\ department' = [department EXCEPT ![id] =
                      [@ EXCEPT !.isActive = FALSE, !.deletedAt = "SET"]]
               /\ Respond(p, l, "ok")
    /\ UNCHANGED <<store, training, notification, now>>

(* ------------- /api/trainings and /api/trainings/{id} ------------------ *)

TrainingStatus == {"NOT_STARTED", "IN_PROGRESS", "COMPLETED", "CANCELLED"}

\* bodies of POST /api/trainings: the dates are instants of the clock
TrainingPostBodies ==
    [startDate : {1}, endDate : {1, 2}, status : {"NOT_STARTED", "COMPLETED"}]

\* bodies of PATCH /api/trainings/{id}
TrainingPatchBodies ==
    {[has |-> {"status"}, status |-> "IN_PROGRESS", startDate |-> 0, endDate |-> 0],
     [has |-> {"startDate", "endDate"}, status |-> "NOT_STARTED", startDate |-> 2,
      endDate |-> 1],
     [has |-> {"endDate"}, status |-> "NOT_STARTED", startDate |-> 0,
      endDate |-> MaxNow + 1]}

\* POST /api/trainings
TrainingPOST(p, body) ==
    /\ pc[p] = "idle"
    /\ LET l == [IdleLoc EXCEPT !.op = "createTraining", !.id = Len(training) + 1,
                                 !.body = body]
       IN IF body.startDate >= body.endDate
          THEN /\ Respond(p, l, "badRequest")
               /\ UNCHANGED training
          ELSE /\ Len(training) < MaxTraining
               /\ training' = Append(training,
                      [startDate |-> body.startDate, endDate |-> body.endDate,
                       status |-> body.status])
               /\ Respond(p, l, "created")
    /\ UNCHANGED <<store, department, notification, now>>

\* PATCH /api/trainings/{id}
TrainingPATCH(p, id, body) ==
    /\ pc[p] = "idle"
    /\ LET l == [IdleLoc EXCEPT !.op = "patchTraining", !.id = id, !.body = body]
       IN IF id \notin DOMAIN training
          THEN /\ Respond(p, l, "notFound")
               /\ UNCHANGED training
          ELSE IF training[id].endDate < now /\ training[id].status # "COMPLETED"
          THEN /\ Respond(p, l, "badRequest")
               /\ UNCHANGED training
          ELSE IF {"startDate", "endDate"} \subseteq body.has
                  /\ body.startDate >= body.endDate
          THEN /\ Respond(p, l, "badRequest")
               /\ UNCHANGED training
          ELSE /\ training' = [training EXCEPT ![id] =
                      [startDate |-> IF "startDate" \in body.has THEN body.startDate
                                     ELSE @.startDate,
                       endDate |-> IF "endDate" \in body.has THEN body.endDate
                                   ELSE @.endDate,
                       status |-> IF "status" \in body.has THEN body.status
                                  ELSE @.status]]
               /\ Respond(p, l, "ok")
    /\ UNCHANGED <<store, department, notification, now>>

\* time passes
Tick ==
    /\ now < MaxNow
    /\ now' = now + 1
    /\ UNCHANGED <<store, pc, loc, department, training, notification>>

(* ------------- /api/notifications -------------------------------------- *)

\* the users a session can belong to
Users == {1, 2}

\* bodies of PATCH /api/notifications/{id}: isRead given or left out
NotificationPatchBodies ==
    {[has |-> {"isRead"}, isRead |-> b] : b \in BOOLEAN}
    \cup {[has |-> {}, isRead |-> FALSE]}

\* prisma.notification.updateMany({where: {recipientId, isRead: false},
\*                                 data: {isRead: true, readAt: new Date()}})
markAllRead(rows, user) ==
    [n \in DOMAIN rows |->
        IF rows[n].recipientId = user /\ ~rows[n].isRead
        THEN [rows[n] EXCEPT !.isRead = TRUE, !.readAt = "SET"]
        ELSE rows[n]]

\* POST /api/notifications by an administrator: isRead defaults to false, readAt
\* to NULL
NotificationPOST(p, recipientId) ==
    /\ pc[p] = "idle"
    /\ Len(notification) < MaxNotification
    /\ notification' = Append(notification,
           [recipientId |-> recipientId, isRead |-> FALSE, readAt |-> "NULL"])
    /\ Respond(p, [IdleLoc EXCEPT !.op = "createNotification",
                                  !.id = Len(notification) + 1], "created")
    /\ UNCHANGED <<store, department, training, now>>

\* PATCH /api/notifications/{id} in the session of `user`
NotificationPATCH(p, user, id, body) ==
    /\ pc[p] = "idle"
    /\ LET l == [IdleLoc EXCEPT !.op = "patchNotification", !.id = id, !.body = body]
           isRead == "isRead" \in body.has /\ body.isRead
       IN IF id \notin DOMAIN notification
          THEN /\ Respond(p, l, "notFound")
               /\ UNCHANGED notification
          ELSE IF notification[id].recipientId # user
          THEN /\ Respond(p, l, "forbidden")
               /\ UNCHANGED notification
          ELSE /\ notification' = [notification EXCEPT ![id] =
                      [@ EXCEPT !.isRead = IF "isRead" \in body.has THEN body.isRead ELSE @,
                                !.readAt = IF isRead THEN "SET" ELSE "NULL"]]
               /\ Respond(p, l, "ok")
    /\ UNCHANGED <<store, department, training, now>>

\* POST /api/notifications/read-all in the session of `user`
NotificationsReadAll(p, user) ==
    /\ pc[p] = "idle"
    /\ notification' = markAllRead(notification, user)
    /\ Respond(p, [IdleLoc EXCEPT !.op = "readAll", !.id = user], "ok")
    /\ UNCHANGED <<store, department, training, now>>

\* GET /api/notifications?markAllAsRead=... in the session of `user`
NotificationsGET(p, user, markAllAsRead) ==
    /\ pc[p] = "idle"
    /\ notification' = IF markAllAsRead THEN markAllRead(notification, user)
                       ELSE notification
    /\ Respond(p, [IdleLoc EXCEPT !.op = "getNotifications", !.id = user], "ok")
    /\ UNCHANGED <<store, department, training, now>>

(* ------------- requests ------------------------------------------------ *)

\* the response has been sent: the request slot is free again
Return(p) ==
    /\ pc[p] = "done"
    /\ pc' = [pc EXCEPT ![p] = "idle"]
    /\ loc' = [loc EXCEPT ![p] = IdleLoc]
    /\ UNCHANGED store
    /\ UNCHANGED otherTables

\* a request on the adjustment routes arrives
BeginAdjustment(p, in) ==
    \/ \E body \in in.post : AdjustmentPOST_findPayroll(p, body)
    \/ \E id \in 1..MaxAdjustment, body \in in.patch :
          AdjustmentPATCH_findUnique(p, id, body)
    \/ \E id \in 1..MaxAdjustment : AdjustmentDELETE_findUnique(p, id)

\* a request on the adjustment routes resumes after an await
StepAdjustment(p) ==
    \/ AdjustmentPOST_create(p)
    \/ RecalcCreate_findMany(p)
    \/ RecalcCreate_findUnique(p)
    \/ RecalcCreate_update(p)
    \/ AdjustmentPATCH_update(p)
    \/ AdjustmentDELETE_delete(p)
    \/ RecalcId_query(p)
    \/ RecalcId_transaction(p)

\* a request on the payroll routes that change or remove a row arrives
BeginPayroll(p, bodies) ==
    \/ \E id \in 1..MaxPayroll, body \in bodies :
          PayrollPATCH_findUnique(p, id, body)
    \/ \E id \in 1..MaxPayroll : PayrollDELETE_findUnique(p, id)

StepPayroll(p) ==
    \/ PayrollPATCH_update(p)
    \/ PayrollDELETE_delete(p)

\* the adjustment routes under concurrent requests, interleaved at their awaits
Next ==
    \E p \in Procs :
        \/ \E body \in PayrollPostBodies : PayrollPOST(p, body)
        \/ BeginAdjustment(p, ConcInputs)
        \/ StepAdjustment(p)
        \/ Return(p)

Spec == Init /\ [][Next]_vars

\* the adjustment routes when requests arrive one at a time: each request runs to
\* its response before the next begins
NextSeq ==
    \/ \E body \in PayrollPostBodies : PayrollPOST("r1", body)
    \/ BeginAdjustment("r1", SeqInputs)
    \/ StepAdjustment("r1")
    \/ Return("r1")

SpecSeq == Init /\ [][NextSeq]_vars

\* the same, with a storage that can fail under a recalculation
NextFail == NextSeq \/ RecalcThrows("r1")

SpecFail == Init /\ [][NextFail]_vars

\* the [id] route's recalculation on its own: the table holds MaxAdjustment rows
\* of payroll 1, of any type and approval, as the create route leaves them (its
\* recalculation has written 0, 0 and baseSalary - tax), and PATCH requests set
\* `approved`
RecalcKinds ==
    {<<"BONUS", 300>>, <<"COMMISSION", 200>>, <<"ALLOWANCE", 50>>,
     <<"DEDUCTION", 100>>, <<"OVERTIME", 150>>, <<"OTHER", 20>>}

RecalcRows ==
    {[payrollId |-> 1, type |-> k[1], amount |-> k[2], approved |-> b,
      status |-> "PENDING", deletedAt |-> "NULL"] : k \in RecalcKinds, b \in BOOLEAN}

InitRecalc ==
    /\ payroll = (1 :> [baseSalary |-> 5000, allowances |-> 0, bonuses |-> 0,
                        deductions |-> 0, tax |-> 500, netSalary |-> 4500,
                        status |-> "DRAFT"])
    /\ adjustment \in [1..MaxAdjustment -> RecalcRows]
    /\ nextPayrollId = 2
    /\ nextAdjustmentId = MaxAdjustment + 1
    /\ pc = [p \in Procs |-> "idle"]
    /\ loc = [p \in Procs |-> IdleLoc]
    /\ department = <<>>
    /\ training = <<>>
    /\ notification = <<>>
    /\ now = 0

NextRecalc ==
    \/ \E id \in 1..MaxAdjustment, body \in AdjustmentPatchBodies({}, {}, BOOLEAN) :
          AdjustmentPATCH_findUnique("r1", id, body)
    \/ AdjustmentPATCH_update("r1")
    \/ RecalcId_query("r1")
    \/ RecalcId_transaction("r1")
    \/ Return("r1")

SpecRecalc == InitRecalc /\ [][NextRecalc]_vars

\* the adjustment routes and the PATCH of a payroll under well- and ill-formed
\* requests that arrive one at a time
NextInput ==
    \/ \E body \in PayrollPostBodies : PayrollPOST("r1", body)
    \/ BeginAdjustment("r1", CheckInputs)
    \/ StepAdjustment("r1")
    \/ \E id \in 1..MaxPayroll :
          PayrollPATCH_findUnique("r1", id, [NoPatch EXCEPT !.has = {"baseSalary"},
                                                            !.baseSalary = 5000])
    \/ PayrollPATCH_update("r1")
    \/ Return("r1")

SpecInput == Init /\ [][NextInput]_vars

\* every route of the ledger, the direct PATCH and DELETE of a payroll included,
\* under requests that arrive one at a time
NextAdmin ==
    \/ \E body \in PayrollPostWithBonuses : PayrollPOST("r1", body)
    \/ BeginAdjustment("r1", AdminInputs)
    \/ StepAdjustment("r1")
    \/ BeginPayroll("r1", AdminPatchBodies)
    \/ StepPayroll("r1")
    \/ Return("r1")

SpecAdmin == Init /\ [][NextAdmin]_vars

\* the adjustment routes and the DELETE of a payroll under concurrent requests
NextVanish ==
    \E p \in Procs :
        \/ \E body \in PayrollPostBodies : PayrollPOST(p, body)
        \/ BeginAdjustment(p, ConcInputs)
        \/ StepAdjustment(p)
        \/ \E id \in 1..MaxPayroll : PayrollDELETE_findUnique(p, id)
        \/ PayrollDELETE_delete(p)
        \/ Return(p)

SpecVanish == Init /\ [][NextVanish]_vars

\* approvals, one request at a time, with a storage that can fail under a
\* recalculation
NextAbort ==
    \/ \E body \in PayrollPostBodies : PayrollPOST("r1", body)
    \/ BeginAdjustment("r1", AbortInputs)
    \/ StepAdjustment("r1")
    \/ RecalcThrows("r1")
    \/ Return("r1")

SpecAbort == Init /\ [][NextAbort]_vars

\* recalculations of different payrolls side by side: every payroll exists, the
\* table holds MaxAdjustment rows, and each request works on the adjustments of
\* its own payroll
Lane(p) == IF p = "r1" THEN 1 ELSE 2

LaneRows ==
    {[payrollId |-> i, type |-> k[1], amount |-> k[2], approved |-> b,
      status |-> "PENDING", deletedAt |-> "NULL"] :
        i \in 1..MaxPayroll, k \in {<<"BONUS", 300>>, <<"OVERTIME", 100>>}, b \in BOOLEAN}

InitLanes ==
    /\ payroll = [i \in 1..MaxPayroll |->
                     [baseSalary |-> 5000, allowances |-> 0, bonuses |-> 0,
                      deductions |-> 0, tax |-> 500, netSalary |-> 4500,
                      status |-> "DRAFT"]]
    /\ adjustment \in [1..MaxAdjustment -> LaneRows]
    /\ nextPayrollId = MaxPayroll + 1
    /\ nextAdjustmentId = MaxAdjustment + 1
    /\ pc = [p \in Procs |-> "idle"]
    /\ loc = [p \in Procs |-> IdleLoc]
    /\ department = <<>>
    /\ training = <<>>
    /\ notification = <<>>
    /\ now = 0

NextLanes ==
    \E p \in Procs :
        \/ \E id \in DOMAIN adjustment, body \in AdjustmentPatchBodies({}, {}, BOOLEAN) :
              /\ adjustment[id].payrollId = Lane(p)
              /\ AdjustmentPATCH_findUnique(p, id, body)
        \/ \E id \in DOMAIN adjustment :
              /\ adjustment[id].payrollId = Lane(p)
              /\ AdjustmentDELETE_findUnique(p, id)
        \/ AdjustmentPATCH_update(p)
        \/ AdjustmentDELETE_delete(p)
        \/ RecalcId_query(p)
        \/ RecalcId_forUpdate(p)
        \/ RecalcId_commit(p)
        \/ Return(p)

SpecLanes == InitLanes /\ [][NextLanes]_vars

\* the adjustment routes on payrolls of several statuses, one request at a time
NextStatus ==
    \/ \E body \in PayrollPostAnyStatus : PayrollPOST("r1", body)
    \/ BeginAdjustment("r1", AbortInputs)
    \/ StepAdjustment("r1")
    \/ Return("r1")

SpecStatus == Init /\ [][NextStatus]_vars

\* approvals of the adjustments of payroll 1 next to direct updates of its status,
\* under concurrent requests (the table as InitRecalc leaves it)
NextRace ==
    \E p \in Procs :
        \/ \E id \in 1..MaxAdjustment, body \in AdjustmentPatchBodies({}, {}, BOOLEAN) :
              AdjustmentPATCH_findUnique(p, id, body)
        \/ AdjustmentPATCH_update(p)
        \/ RecalcId_query(p)
        \/ RecalcId_transaction(p)
        \/ PayrollPATCH_findUnique(p, 1, [NoPatch EXCEPT !.has = {"status"},
                                                          !.status = "PAID"])
        \/ PayrollPATCH_update(p)
        \/ Return(p)

SpecRace == InitRecalc /\ [][NextRace]_vars

\* creates of adjustments next to deletions of payrolls, under concurrent requests
NextIntegrity ==
    \E p \in Procs :
        \/ \E body \in PayrollPostBodies : PayrollPOST(p, body)
        \/ \E body \in ConcInputs.post : AdjustmentPOST_findPayroll(p, body)
        \/ AdjustmentPOST_create(p)
        \/ RecalcCreate_findMany(p)
        \/ RecalcCreate_findUnique(p)
        \/ RecalcCreate_update(p)
        \/ \E id \in 1..MaxPayroll : PayrollDELETE_findUnique(p, id)
        \/ PayrollDELETE_delete(p)
        \/ Return(p)

SpecIntegrity == Init /\ [][NextIntegrity]_vars

\* the department routes, one request at a time
NextDepartment ==
    \/ \E name \in DepartmentNames : DepartmentPOST("r1", name)
    \/ \E id \in 1..MaxDepartment : DepartmentGET("r1", id)
    \/ \E id \in 1..MaxDepartment, body \in DepartmentUpdateBodies :
          DepartmentPUT("r1", id, body)
    \/ \E id \in 1..MaxDepartment, body \in DepartmentUpdateBodies :
          DepartmentPATCH("r1", id, body)
    \/ \E id \in 1..MaxDepartment, body \in DepartmentUpdateBodies :
          DepartmentsPUT("r1", id, body)
    \/ \E id \in 1..MaxDepartment : DepartmentDELETE("r1", id)
    \/ Return("r1")

SpecDepartment == Init /\ [][NextDepartment]_vars

\* the training routes, one request at a time, while time passes
NextTraining ==
    \/ \E body \in TrainingPostBodies : TrainingPOST("r1", body)
    \/ \E id \in 1..MaxTraining, body \in TrainingPatchBodies : TrainingPATCH("r1", id, body)
    \/ Tick
    \/ Return("r1")

SpecTraining == Init /\ [][NextTraining]_vars

\* the notification routes, one request at a time
NextNotification ==
    \/ \E u \in Users : NotificationPOST("r1", u)
    \/ \E u \in Users, id \in 1..MaxNotification, body \in NotificationPatchBodies :
          NotificationPATCH("r1", u, id, body)
    \/ \E u \in Users : NotificationsReadAll("r1", u)
    \/ \E u \in Users, flag \in BOOLEAN : NotificationsGET("r1", u, flag)
    \/ Return("r1")

SpecNotification == Init /\ [][NextNotification]_vars

(* ======================== properties =================================== *)

\* the types the data model calls additive
Additive == {"BONUS", "COMMISSION", "ALLOWANCE"}

\* the adjustments of payroll i that are approved now
ApprovedOf(i) ==
    {a \in DOMAIN adjustment : adjustment[a].payrollId = i /\ adjustment[a].approved}

ExpectedAllowances(i) ==
    SumAmount(adjustment, {a \in ApprovedOf(i) : adjustment[a].type \in Additive})

ExpectedDeductions(i) ==
    SumAmount(adjustment, {a \in ApprovedOf(i) : adjustment[a].type \notin Additive})

\* the stored totals of payroll i are those of its approved adjustments
TotalsMatch(i) ==
    /\ payroll[i].allowances = ExpectedAllowances(i)
    /\ payroll[i].deductions = ExpectedDeductions(i)
    /\ payroll[i].netSalary = payroll[i].baseSalary + payroll[i].allowances
                              - payroll[i].tax - payroll[i].deductions

\* request p has completed operation op successfully
Succeeded(p, op) ==
    /\ pc[p] = "done"
    /\ loc[p].op = op
    /\ loc[p].result \in {"ok", "created"}

AdjustmentOps == {"createAdjustment", "updateAdjustment", "deleteAdjustment"}

\* C1: after any sequence of successfully completed create / update / delete
\* adjustment operations, every payroll's netSalary is baseSalary + allowances - tax
\* - deductions, its allowances the sum of its approved BONUS / COMMISSION /
\* ALLOWANCE adjustments and its deductions the sum of its other approved ones.
C1_TotalsAfterEveryOperation ==
    \A p \in Procs :
        (\E op \in AdjustmentOps : Succeeded(p, op))
            => \A i \in DOMAIN payroll : TotalsMatch(i)

\* C2: once two concurrent operations of the [id] route on the same payroll have both
\* completed, the stored totals are those of the approved adjustments in the store.
C2_NoLostUpdate ==
    \A p, q \in Procs :
        (/\ p # q
         /\ \E op \in {"updateAdjustment", "deleteAdjustment"} : Succeeded(p, op)
         /\ \E op \in {"updateAdjustment", "deleteAdjustment"} : Succeeded(q, op)
         /\ loc[p].pid = loc[q].pid)
            => TotalsMatch(loc[p].pid)

\* C3: an operation whose recalculation failed has failed as a whole: a create has
\* left no row, a delete has left its row in place.
C3_FailedRecalculationRollsBack ==
    \A p \in Procs :
        (pc[p] = "done" /\ loc[p].result = "serverError")
            => /\ loc[p].op = "createAdjustment" => loc[p].id \notin DOMAIN adjustment
               /\ loc[p].op = "deleteAdjustment" => loc[p].id \in DOMAIN adjustment

\* C4: when a create with approved = true has succeeded, the parent's stored totals
\* include the new adjustment's amount and the net salary follows from them.
C4_ApprovedCreateIsCounted ==
    \A p \in Procs :
        (/\ Succeeded(p, "createAdjustment")
         /\ loc[p].body.approved)
            => LET a == adjustment[loc[p].id]
                   r == payroll[loc[p].pid]
               IN /\ a.type \in Additive => r.allowances >= a.amount
                  /\ a.type \notin Additive => r.deductions >= a.amount
                  /\ r.netSalary = r.baseSalary + r.allowances - r.tax - r.deductions

\* C5: no step of a create with approved = false and amount > 0 changes the parent
\* payroll's netSalary.
C5_UnapprovedCreateKeepsNetSalary ==
    [][\A p \in Procs :
        (/\ loc[p].op = "createAdjustment"
         /\ ~loc[p].body.approved
         /\ loc[p].body.amount > 0
         /\ loc[p].pid \in DOMAIN payroll)
            => payroll'[loc[p].pid].netSalary = payroll[loc[p].pid].netSalary]_vars

C8_Classification ==
    \A p \in Procs :
        Succeeded(p, "updateAdjustment")
            => LET i == loc[p].pid
                   counted(types) ==
                       SumAmount(adjustment,
                                 {a \in DOMAIN adjustment :
                                     /\ adjustment[a].payrollId = i
                                     /\ adjustment[a].approved
                                     /\ adjustment[a].type \in types})
               IN /\ payroll[i].allowances = counted({"BONUS", "COMMISSION", "ALLOWANCE"})
                  /\ payroll[i].deductions = counted({"DEDUCTION", "OVERTIME", "OTHER"})
                  /\ payroll[i].netSalary = payroll[i].baseSalary - payroll[i].tax
                        + counted({"BONUS", "COMMISSION", "ALLOWANCE"})
                        - counted({"DEDUCTION", "OVERTIME", "OTHER"})

\* an approved OVERTIME adjustment, alone, has lowered the net salary
C8_Witness ==
    \E p \in Procs :
        /\ Succeeded(p, "updateAdjustment")
        /\ \E a \in ApprovedOf(loc[p].pid) : adjustment[a].type = "OVERTIME"
        /\ \A a \in ApprovedOf(loc[p].pid) : adjustment[a].type = "OVERTIME"
        /\ payroll[loc[p].pid].netSalary
             < payroll[loc[p].pid].baseSalary - payroll[loc[p].pid].tax

\* C9: a step changes the allowances, deductions or netSalary of a payroll only when
\* it is a step of a request working on that payroll.
C9_OtherPayrollsUntouched ==
    [][\A b \in DOMAIN payroll :
        (/\ b \in DOMAIN payroll'
         /\ <<payroll'[b].allowances, payroll'[b].deductions, payroll'[b].netSalary>>
              # <<payroll[b].allowances, payroll[b].deductions, payroll[b].netSalary>>)
            => \E p \in Procs : pc'[p] # pc[p] /\ loc[p].pid = b]_vars

\* a recalculation has written the totals of one payroll while another payroll
\* still holds the totals it was created with
C9_Witness ==
    \E a, b \in DOMAIN payroll :
        /\ a # b
        /\ payroll[a].allowances > 0
        /\ payroll[a].netSalary = payroll[a].baseSalary - payroll[a].tax + payroll[a].allowances
        /\ payroll[b].allowances = 0
        /\ payroll[b].netSalary = payroll[b].baseSalary - payroll[b].tax

\* C10: a second recalculation right after a first, with nothing changed in between,
\* leaves allowances, deductions and netSalary as the first left them (both routes).
C10_Idempotent ==
    \A i \in DOMAIN payroll :
        /\ LET once == updateId(payroll, i, totalsId(adjustment, queryApproved(adjustment, i)))
               twice == updateId(once, i, totalsId(adjustment, queryApproved(adjustment, i)))
           IN twice = once
        /\ LET t == totalsCreate(adjustment, findManyApproved(adjustment, i))
               once == updateCreate(payroll, i, payroll[i], t)
               twice == updateCreate(once, i, once[i], t)
           IN twice = once

\* the first recalculation changes the stored totals (so the second has something
\* to undo or to add again)
C10_Witness ==
    \E i \in DOMAIN payroll :
        /\ ApprovedOf(i) # {}
        /\ payroll[i].allowances + payroll[i].deductions > 0
        /\ updateId(payroll, i, totalsId(adjustment, queryApproved(adjustment, i))) # payroll
        /\ updateCreate(payroll, i, payroll[i],
                        totalsCreate(adjustment, findManyApproved(adjustment, i))) # payroll

\* C11: a create with a negative amount is answered with a validation error at once
\* (it never reaches the insert or the recalculation), and no stored adjustment has
\* a negative amount.
C11_NegativeAmountRejected ==
    /\ \A p \in Procs :
          (/\ loc[p].op = "createAdjustment"
           /\ loc[p].body.amount < 0
           /\ loc[p].pid \in DOMAIN payroll)
              => pc[p] = "done" /\ loc[p].result = "badRequest"
    /\ \A a \in DOMAIN adjustment : adjustment[a].amount >= 0

\* C14: after a direct update that patches baseSalary or tax, the stored netSalary is
\* the new baseSalary plus the stored allowances minus the new tax minus the stored
\* deductions, and nothing else.
C14_DirectUpdateNetSalary ==
    \A p \in Procs :
        (/\ Succeeded(p, "updatePayroll")
         /\ loc[p].body.has \cap {"baseSalary", "tax"} # {})
            => LET r == payroll[loc[p].id]
               IN r.netSalary = r.baseSalary + r.allowances - r.tax - r.deductions

\* C15: no step of a direct update changes the allowances or the deductions of a
\* stored payroll.
C15_DirectUpdateKeepsTotals ==
    [][\A p \in Procs :
        (loc'[p].op = "updatePayroll" /\ pc'[p] # pc[p])
            => \A i \in DOMAIN payroll \cap DOMAIN payroll' :
                  /\ payroll'[i].allowances = payroll[i].allowances
                  /\ payroll'[i].deductions = payroll[i].deductions]_vars

\* C16: every stored payroll has netSalary = baseSalary + allowances - tax -
\* deductions, from the state right after its creation on.
C16_NetSalaryDerived ==
    \A i \in DOMAIN payroll :
        payroll[i].netSalary = payroll[i].baseSalary + payroll[i].allowances
                               - payroll[i].tax - payroll[i].deductions

\* C17: a direct update with a negative baseSalary or tax is answered with a
\* validation error at once, and no stored payroll has a negative baseSalary or tax.
C17_NegativeBaseOrTaxRejected ==
    /\ \A p \in Procs :
          (/\ loc[p].op = "updatePayroll"
           /\ loc[p].id \in DOMAIN payroll
           /\ \/ "baseSalary" \in loc[p].body.has /\ loc[p].body.baseSalary < 0
              \/ "tax" \in loc[p].body.has /\ loc[p].body.tax < 0)
              => pc[p] = "done" /\ loc[p].result = "badRequest"
    /\ \A i \in DOMAIN payroll : payroll[i].baseSalary >= 0 /\ payroll[i].tax >= 0

\* request l carries a type outside the enum
UnknownType(l) ==
    \/ l.op = "createAdjustment" /\ l.body.type \notin ADJUSTMENT_TYPES
    \/ /\ l.op = "updateAdjustment"
       /\ "type" \in l.body.has
       /\ l.body.type \notin ADJUSTMENT_TYPES

Missing(l) ==
    \/ /\ l.op = "createAdjustment"
       /\ l.body.type \in ADJUSTMENT_TYPES
       /\ l.body.payrollId \notin DOMAIN payroll
    \/ l.op \in {"updateAdjustment", "deleteAdjustment"} /\ l.id \notin DOMAIN adjustment
    \/ l.op = "updatePayroll" /\ l.id \notin DOMAIN payroll

\* C13: a request that names a record not in the store is answered NotFound in its
\* first step: that step changes no row and the request goes no further (no insert,
\* update, delete or recalculation).
C13_NotFoundHasNoEffect ==
    [][\A p \in Procs :
        (pc[p] = "idle" /\ pc'[p] # "idle" /\ Missing(loc'[p]))
            => /\ store' = store
               /\ pc'[p] = "done"
               /\ loc'[p].result = "notFound"]_vars

\* a delete of an adjustment that is not in the store has been answered NotFound
\* while the store holds a payroll and another adjustment
C13_Witness ==
    \E p \in Procs :
        /\ pc[p] = "done"
        /\ loc[p].op = "deleteAdjustment"
        /\ loc[p].result = "notFound"
        /\ loc[p].id \notin DOMAIN adjustment
        /\ adjustment # <<>>
        /\ payroll # <<>>

\* C18: a recalculation that finds its payroll gone when it reads or writes the
\* row ends the request with a server error.
C18_VanishedPayrollIsReported ==
    [][\A p \in Procs :
        (/\ pc[p] \in {"post_recalc_findUnique", "post_recalc_update", "recalc_transaction"}
         /\ loc[p].pid \notin DOMAIN payroll
         /\ pc'[p] # pc[p])
            => pc'[p] = "done" /\ loc'[p].result = "serverError"]_vars

\* the three fields a recalculation writes
Written(r) == <<r.allowances, r.deductions, r.netSalary>>

\* C19: every step leaves allowances, deductions and netSalary of a payroll all as
\* they were, or is the write of a recalculation that completes and sets all three:
\* the two totals it summed and the net salary that follows from them.  A request
\* that is aborted writes none of them.
C19_TotalsWrittenTogether ==
    [][\A i \in DOMAIN payroll \cap DOMAIN payroll' :
        \/ Written(payroll'[i]) = Written(payroll[i])
        \/ \E p \in Procs :
              /\ pc[p] \in {"post_recalc_update", "recalc_transaction"}
              /\ loc[p].pid = i
              /\ pc'[p] = "done"
              /\ loc'[p].result \in {"ok", "created"}
              /\ payroll'[i].allowances = loc[p].totals.additions
              /\ payroll'[i].deductions = loc[p].totals.deductions
              /\ payroll'[i].netSalary = payroll'[i].baseSalary + payroll'[i].allowances
                                         - payroll'[i].tax - payroll'[i].deductions]_vars

\* an update was aborted in its recalculation after an earlier recalculation had
\* written the totals of the payroll
C19_Witness ==
    \E p \in Procs :
        /\ pc[p] = "done"
        /\ loc[p].op = "updateAdjustment"
        /\ loc[p].result = "serverError"
        /\ payroll[loc[p].pid].allowances > 0
        /\ payroll[loc[p].pid].netSalary = payroll[loc[p].pid].baseSalary
               + payroll[loc[p].pid].allowances - payroll[loc[p].pid].tax

\* C20: while two requests work on different payrolls, the next step of each
\* recalculation is enabled wherever the other stands, and a request that has
\* completed leaves its payroll with the totals of its approved adjustments, as
\* when it runs alone.
C20_LanesIndependent ==
    \A p \in Procs :
        /\ pc[p] = "recalc_query" => ENABLED RecalcId_query(p)
        /\ pc[p] = "recalc_transaction" => ENABLED RecalcId_forUpdate(p)
        /\ pc[p] = "recalc_locked" => ENABLED RecalcId_commit(p)
        /\ (\E op \in {"updateAdjustment", "deleteAdjustment"} : Succeeded(p, op))
              => TotalsMatch(loc[p].pid)

\* one recalculation holds the row lock of its payroll while the other, on another
\* payroll, is about to take its own
C20_Witness ==
    \E p, q \in Procs :
        /\ pc[p] = "recalc_transaction"
        /\ pc[q] = "recalc_locked"
        /\ loc[p].pid # loc[q].pid
        /\ loc[p].totals.additions + loc[p].totals.deductions > 0

\* the positions of a request inside a recalculation
RecalcLabels ==
    {"post_recalc_findMany", "post_recalc_findUnique", "post_recalc_update",
     "recalc_query", "recalc_transaction", "recalc_locked"}

\* C21: no step of a recalculation, of either route, changes the baseSalary, the tax
\* or the status of a payroll (nor removes a payroll).
C21_RecalculationKeepsBaseFigures ==
    [][\A p \in Procs :
        (pc[p] \in RecalcLabels /\ pc'[p] # pc[p])
            => \A i \in DOMAIN payroll :
                  /\ i \in DOMAIN payroll'
                  /\ payroll'[i].baseSalary = payroll[i].baseSalary
                  /\ payroll'[i].tax = payroll[i].tax
                  /\ payroll'[i].status = payroll[i].status]_vars

\* a recalculation has written the totals of a cancelled payroll, whose base
\* figures and status stand as created
C21_Witness ==
    \E p \in Procs :
        /\ Succeeded(p, "updateAdjustment")
        /\ payroll[loc[p].pid].status = "CANCELLED"
        /\ payroll[loc[p].pid].allowances = 300
        /\ payroll[loc[p].pid].baseSalary = 5000
        /\ payroll[loc[p].pid].tax = 500

\* C22: an update or delete of an adjustment that has completed has written the
\* totals of the approved adjustments to the parent payroll, whatever the status
\* of that payroll.
C22_RecalculationIgnoresStatus ==
    \A p \in Procs, st \in PayrollStatus :
        (/\ \E op \in {"updateAdjustment", "deleteAdjustment"} : Succeeded(p, op)
         /\ payroll[loc[p].pid].status = st)
            => Written(payroll[loc[p].pid])
                 = <<ExpectedAllowances(loc[p].pid), ExpectedDeductions(loc[p].pid),
                     payroll[loc[p].pid].baseSalary + ExpectedAllowances(loc[p].pid)
                       - payroll[loc[p].pid].tax - ExpectedDeductions(loc[p].pid)>>

\* an approval has raised the net salary of a payroll that is PAID
C22_Witness ==
    \E p \in Procs :
        /\ Succeeded(p, "updateAdjustment")
        /\ loc[p].body.approved
        /\ payroll[loc[p].pid].status = "PAID"
        /\ payroll[loc[p].pid].netSalary = 4800

\* C23: no step removes a payroll from the store: a DELETE on a payroll leaves the
\* row in place.
C23_PayrollNeverRemoved ==
    [][\A i \in DOMAIN payroll : i \in DOMAIN payroll']_vars

\* C26: a request that updates an adjustment with neither amount nor approved in
\* its patch never enters the recalculation, and none of its steps changes the
\* allowances, deductions or netSalary of a payroll.
C26_TypeOnlyPatchKeepsTotals ==
    [][\A p \in Procs :
        (/\ loc'[p].op = "updateAdjustment"
         /\ loc'[p].body.has \cap {"amount", "approved"} = {}
         /\ pc'[p] # pc[p])
            => /\ pc'[p] \notin RecalcLabels
               /\ \A i \in DOMAIN payroll :
                     i \in DOMAIN payroll' /\ Written(payroll'[i]) = Written(payroll[i])]_vars

\* an approved BONUS counted in the allowances has been patched to OVERTIME and the
\* allowances still count it
C26_Witness ==
    \E p \in Procs :
        /\ Succeeded(p, "updateAdjustment")
        /\ loc[p].body.has = {"type"}
        /\ adjustment[loc[p].id].type = "OVERTIME"
        /\ adjustment[loc[p].id].approved
        /\ payroll[loc[p].pid].allowances = adjustment[loc[p].id].amount
        /\ payroll[loc[p].pid].deductions = 0

\* C27: on every payroll, the recalculation of the create route and the one of the
\* update/delete route select the same adjustments, the approved ones, and write
\* the same allowances, deductions and netSalary.
C27_RoutesAgree ==
    \A i \in DOMAIN payroll :
        /\ findManyApproved(adjustment, i) = queryApproved(adjustment, i)
        /\ queryApproved(adjustment, i) = ApprovedOf(i)
        /\ updateCreate(payroll, i, payroll[i],
                        totalsCreate(adjustment, findManyApproved(adjustment, i)))
             = updateId(payroll, i, totalsId(adjustment, queryApproved(adjustment, i)))

\* C28: the write of a direct update whose patch sets only the status leaves the
\* stored netSalary as it is, wherever a concurrent recalculation stands.
C28_StatusPatchKeepsNetSalary ==
    [][\A p \in Procs :
        (/\ pc[p] = "payroll_update"
         /\ loc[p].body.has \subseteq {"status"}
         /\ pc'[p] # pc[p]
         /\ loc[p].id \in DOMAIN payroll)
            => /\ loc[p].id \in DOMAIN payroll'
               /\ payroll'[loc[p].id].netSalary = payroll[loc[p].id].netSalary]_vars

\* C29: every stored adjustment references a payroll that is in the store.
C29_ReferentialIntegrity ==
    \A a \in DOMAIN adjustment : adjustment[a].payrollId \in DOMAIN payroll

\* a create found its payroll, the payroll was deleted before the insert, and the
\* insert was refused
C29_Witness ==
    \E p \in Procs :
        /\ pc[p] = "done"
        /\ loc[p].op = "createAdjustment"
        /\ loc[p].result = "serverError"
        /\ loc[p].pid \notin DOMAIN payroll
        /\ \A a \in DOMAIN adjustment : adjustment[a].payrollId # loc[p].pid

C25_PastOrCompletedTrainingRefused ==
    [][\A p \in Procs :
        (/\ pc[p] = "idle"
         /\ pc'[p] = "done"
         /\ loc'[p].op = "patchTraining"
         /\ loc'[p].id \in DOMAIN training
         /\ \/ training[loc'[p].id].endDate < now
            \/ training[loc'[p].id].status = "COMPLETED")
            => /\ loc'[p].result = "badRequest"
               /\ training' = training]_vars

\* C30: every notification has isRead true exactly when readAt is set.
C30_ReadIffReadAt ==
    \A n \in DOMAIN notification :
        notification[n].isRead <=> notification[n].readAt # "NULL"

====
